---------------------------- MODULE Spec2Model ----------------------------
(***************************************************************************)
(* Model of pkg/trace/pb/decoder.go: the scalar decoders (parseString,     *)
(* parseStringDict, parseFloat64, parseInt64, parseUint64, parseInt32),    *)
(* Traces.DecodeMsgArray, Span.DecodeMsgArray and the msgp reader pool     *)
(* (NewMsgpReader / FreeMsgpReader).                                       *)
(*                                                                         *)
(* Three specifications share the module:                                  *)
(*   SpecScalar  one scalar decoder applied to one wire value              *)
(*   SpecPool    callers acquiring and releasing pooled readers            *)
(*   Spec        Traces.DecodeMsgArray run step by step over a wire that   *)
(*               is produced token by token, into two destination buffers  *)
(***************************************************************************)
EXTENDS Integers, Sequences, FiniteSets, TLC

VARIABLES
    \* ---- SpecScalar
    sc_tok,     \* the wire value under the reader
    sc_dict,    \* the dictionary handed to parseStringDict
    sc_op,      \* which decoder ran ("none" before the call)
    sc_res,     \* what it returned
    \* ---- SpecPool
    pool,       \* readerPool: the readers sitting in the sync.Pool
    readers,    \* reader id -> its fwd.Reader state (field R of msgp.Reader)
    held,       \* caller -> the reader it holds, or NoReader
    lastBound,  \* history: reader id -> the stream NewMsgpReader last bound it
                \* to, and the one before
    \* ---- Spec (the decoder)
    pc,         \* position in Traces.DecodeMsgArray / Span.DecodeMsgArray
    dict,       \* dict []string
    sz,         \* sz: the dictionary's declared length
    di,         \* i: the dictionary entry being decoded (1-based)
    z,          \* *z, the destination batch
    zB,         \* the destination of a second decode of the same payload
    wht,        \* index of the trace being decoded (1-based)
    hct,        \* index of the span being decoded (1-based)
    msize,      \* metaSize / metricsSize: entries left to read
    key,        \* zxvk / zbai: the key read, waiting for its value
    err,        \* the error Traces.DecodeMsgArray returned (NoErr: none)
    serr,       \* the error Span.DecodeMsgArray returned
    unread,     \* a token NextType looked at and nothing consumed, or NoTok
    tpl,        \* the payload family: shifts the map sizes the wire declares
    hist        \* history of the run (what the wire declared, what failed)

scalarVars == <<sc_tok, sc_dict, sc_op, sc_res>>
poolVars   == <<pool, readers, held, lastBound>>
decVars    == <<pc, dict, sz, di, z, zB, wht, hct, msize, key, err, serr, unread,
                tpl, hist>>
vars       == <<scalarVars, poolVars, decVars>>
\* what each specification holds still
notScalar  == <<poolVars, decVars>>
notPool    == <<scalarVars, decVars>>
notDec     == <<scalarVars, poolVars>>

(***************************************************************************)
(* 64-bit integers.  TLC's integers are 32 bits wide, so a 64-bit          *)
(* magnitude is four base-2^16 limbs, most significant first.  A Go        *)
(* uint64 is such a tuple; a Go int64 / int32 / int is a mathematical      *)
(* integer [neg, mag] (never a negative zero).                             *)
(***************************************************************************)
B16 == 2^16

L64(a, b, c, d) == <<a, b, c, d>>

Zero64      == L64(0, 0, 0, 0)
One64       == L64(0, 0, 0, 1)
AllOnes64   == L64(65535, 65535, 65535, 65535)  \* 18446744073709551615
MaxInt64    == L64(32767, 65535, 65535, 65535)  \* math.MaxInt64
TwoTo63     == L64(32768, 0, 0, 0)
MaxInt32    == L64(0, 0, 32767, 65535)          \* math.MaxInt32
TwoTo31     == L64(0, 0, 32768, 0)
MaxUint32   == L64(0, 0, 65535, 65535)
TwoTo32     == L64(0, 1, 0, 0)

\* a < b on magnitudes
Lt64(a, b) ==
    \E i \in 1..4 : a[i] < b[i] /\ \A j \in 1..(i-1) : a[j] = b[j]

Le64(a, b) == a = b \/ Lt64(a, b)

\* a + b on 64 bits: the wrapped sum and the carry out
Add64(a, b) ==
    LET s4 == a[4] + b[4]
        s3 == a[3] + b[3] + (s4 \div B16)
        s2 == a[2] + b[2] + (s3 \div B16)
        s1 == a[1] + b[1] + (s2 \div B16)
    IN  [sum |-> L64(s1 % B16, s2 % B16, s3 % B16, s4 % B16),
         carry |-> s1 \div B16]

\* the two's complement bit pattern of -m
Neg64(m) == Add64([i \in 1..4 |-> (B16 - 1) - m[i]], One64).sum

I64(neg, mag) == [neg |-> neg, mag |-> mag]

\* Go's uint64(i) of an int64: the same 64 bits read as unsigned
uint64(i) == IF i.neg THEN Neg64(i.mag) ELSE i.mag

\* Go's float64(i) of an integer; a float64 is [neg, mag, half]: the number
\* +-(mag + half/2).  Exact for magnitudes up to 2^53, which is what the
\* wire values of the model stay within for this conversion.
F64(neg, mag, half) == [neg |-> neg, mag |-> mag, half |-> half]

float64(i) == F64(i.neg, i.mag, FALSE)

(***************************************************************************)
(* Wire values.  One token is one msgpack value (or header) under the      *)
(* reader: t is its msgp.Type as NextType reports it, "eof" the end of the *)
(* stream; short marks a value cut off after its first byte.               *)
(***************************************************************************)
Tok(t, neg, mag, s, n, short) ==
    [t |-> t, neg |-> neg, mag |-> mag, s |-> s, n |-> n, short |-> short]

TInt(neg, mag) == Tok("int", neg, mag, "", 0, FALSE)
TUint(mag)     == Tok("uint", FALSE, mag, "", 0, FALSE)
TIdx(n)        == TInt(n < 0, L64(0, 0, 0, IF n < 0 THEN -n ELSE n))
TF64(neg, mag, half) == Tok("f64", neg, mag, "", IF half THEN 1 ELSE 0, FALSE)
TStr(s)        == Tok("str", FALSE, Zero64, s, 0, FALSE)
TBin(s)        == Tok("bin", FALSE, Zero64, s, 0, FALSE)
TNil           == Tok("nil", FALSE, Zero64, "", 0, FALSE)
TBool          == Tok("bool", FALSE, Zero64, "", 0, FALSE)
TArr(n)        == Tok("arr", FALSE, Zero64, "", n, FALSE)
TMap(n)        == Tok("map", FALSE, Zero64, "", n, FALSE)
TEof           == Tok("eof", FALSE, Zero64, "", 0, FALSE)
Short(tk)      == [tk EXCEPT !.short = TRUE]
NoTok          == Tok("none", FALSE, Zero64, "", 0, FALSE)

NoErr          == "nil"
ErrEOF         == "EOF"
ErrShort       == "unexpected EOF"
ErrType        == "msgp.TypeError"
ErrIntOverflow == "msgp.IntOverflow"
ErrUintOverflow == "msgp.UintOverflow"
ErrOverflow64  == "found uint64, overflows int64"
ErrOverflow32  == "found uint32, overflows int32"
ErrIndex       == "dictionary index out of place"
ErrDictType    == "dictionary value has unsupported type"
ErrArity       == "encoded z needs exactly 12 elements in array"

\* what a decoder returns: the value, the error, whether it panicked instead
Ret(v, e)  == [v |-> v, err |-> e, panic |-> FALSE]
Panic      == [v |-> "", err |-> NoErr, panic |-> TRUE]

(***************************************************************************)
(* The msgp.Reader calls the decoder makes (github.com/tinylib/msgp).      *)
(***************************************************************************)
NextType(tk) == IF tk.t = "eof" THEN Ret("", ErrEOF) ELSE Ret(tk.t, NoErr)

ReadOf(tk, ty, v, zero) ==
    IF tk.t = "eof" THEN Ret(zero, ErrEOF)
    ELSE IF tk.t # ty THEN Ret(zero, ErrType)
    ELSE IF tk.short THEN Ret(zero, ErrShort)
    ELSE Ret(v, NoErr)

ReadInt64(tk)   == ReadOf(tk, "int", I64(tk.neg, tk.mag), I64(FALSE, Zero64))
ReadUint64(tk)  == ReadOf(tk, "uint", tk.mag, Zero64)
ReadFloat64(tk) == ReadOf(tk, "f64", F64(tk.neg, tk.mag, tk.n = 1),
                          F64(FALSE, Zero64, FALSE))
ReadString(tk)  == ReadOf(tk, "str", tk.s, "")
ReadBytes(tk)   == ReadOf(tk, "bin", tk.s, "")
ReadArrayHeader(tk) == ReadOf(tk, "arr", tk.n, 0)
ReadMapHeader(tk)   == ReadOf(tk, "map", tk.n, 0)

\* int is 64 bits wide: ReadInt is ReadInt64
ReadInt(tk) == ReadInt64(tk)

ReadInt32(tk) ==
    LET r == ReadInt64(tk)
    IN  IF r.err # NoErr THEN r
        ELSE IF (~r.v.neg /\ Lt64(MaxInt32, r.v.mag))
                \/ (r.v.neg /\ Lt64(TwoTo31, r.v.mag))
             THEN Ret(I64(FALSE, Zero64), ErrIntOverflow)
        ELSE r

ReadUint32(tk) ==
    LET r == ReadUint64(tk)
    IN  IF r.err # NoErr THEN r
        ELSE IF Lt64(MaxUint32, r.v) THEN Ret(Zero64, ErrUintOverflow)
        ELSE r

(***************************************************************************)
(* The scalar decoders.                                                    *)
(***************************************************************************)
parseString(tk) ==
    LET t == NextType(tk)
    IN  IF t.err # NoErr THEN Ret("", t.err)
        ELSE CASE t.v = "bin" -> LET i == ReadBytes(tk)
                                 IN IF i.err # NoErr THEN Ret("", i.err) ELSE i
               [] t.v = "str" -> LET i == ReadString(tk)
                                 IN IF i.err # NoErr THEN Ret("", i.err) ELSE i
               [] OTHER -> Ret("", ErrType)

\* i as an index into a sequence of length n: Go's dict[i]
Index(d, i) == d[i.mag[4] + 1]

\* i >= n for an int i and a length n
GeLen(i, n) == ~i.neg /\ ~Lt64(i.mag, L64(0, 0, 0, n))

parseStringDict(tk, d) ==
    LET r == ReadInt(tk)
        i == r.v
    IN  IF GeLen(i, Len(d)) THEN Ret("", ErrIndex)
        ELSE IF i.neg THEN Panic  \* dict[i] with i < 0: index out of range
        ELSE Ret(Index(d, i), r.err)

parseFloat64(tk) ==
    LET t == NextType(tk)
        zero == F64(FALSE, Zero64, FALSE)
    IN  IF t.err # NoErr THEN Ret(zero, t.err)
        ELSE CASE t.v = "int" -> LET i == ReadInt64(tk)
                                 IN IF i.err # NoErr THEN Ret(zero, i.err)
                                    ELSE Ret(float64(i.v), NoErr)
               [] t.v = "uint" -> LET i == ReadUint64(tk)
                                  IN IF i.err # NoErr THEN Ret(zero, i.err)
                                     ELSE Ret(float64(I64(FALSE, i.v)), NoErr)
               [] t.v = "f64" -> LET f == ReadFloat64(tk)
                                 IN IF f.err # NoErr THEN Ret(zero, f.err) ELSE f
               [] OTHER -> Ret(zero, ErrType)

castInt64(v) ==
    IF Lt64(MaxInt64, v) THEN [v |-> I64(FALSE, Zero64), ok |-> FALSE]
    ELSE [v |-> I64(FALSE, v), ok |-> TRUE]

parseInt64(tk) ==
    LET t == NextType(tk)
        zero == I64(FALSE, Zero64)
    IN  IF t.err # NoErr THEN Ret(zero, t.err)
        ELSE CASE t.v = "int" -> LET i == ReadInt64(tk)
                                 IN IF i.err # NoErr THEN Ret(zero, i.err) ELSE i
               [] t.v = "uint" ->
                    LET u == ReadUint64(tk)
                        c == castInt64(u.v)
                    IN  IF u.err # NoErr THEN Ret(zero, u.err)
                        ELSE IF ~c.ok THEN Ret(zero, ErrOverflow64)
                        ELSE Ret(c.v, NoErr)
               [] OTHER -> Ret(zero, ErrType)

\* a parseUint64 that range-checks a signed wire value
parseUint64_rangeChecked(tk) ==
    LET t == NextType(tk)
    IN  IF t.err # NoErr THEN Ret(Zero64, t.err)
        ELSE CASE t.v = "uint" -> LET u == ReadUint64(tk)
                                  IN IF u.err # NoErr THEN Ret(Zero64, u.err) ELSE u
               [] t.v = "int" -> LET i == ReadInt64(tk)
                                 IN IF i.err # NoErr THEN Ret(Zero64, i.err)
                                    ELSE IF i.v.neg THEN Ret(Zero64, ErrIntOverflow)
                                    ELSE Ret(i.v.mag, NoErr)
               [] OTHER -> Ret(Zero64, ErrType)

parseUint64(tk) ==
    LET t == NextType(tk)
    IN  IF t.err # NoErr THEN Ret(Zero64, t.err)
        ELSE CASE t.v = "uint" -> LET u == ReadUint64(tk)
                                  IN IF u.err # NoErr THEN Ret(Zero64, u.err) ELSE u
               [] t.v = "int" -> LET i == ReadInt64(tk)
                                 IN IF i.err # NoErr THEN Ret(Zero64, i.err)
                                    ELSE Ret(uint64(i.v), NoErr)
               [] OTHER -> Ret(Zero64, ErrType)

castInt32(v) ==
    IF Lt64(MaxInt32, v) THEN [v |-> I64(FALSE, Zero64), ok |-> FALSE]
    ELSE [v |-> I64(FALSE, v), ok |-> TRUE]

parseInt32(tk) ==
    LET t == NextType(tk)
        zero == I64(FALSE, Zero64)
    IN  IF t.err # NoErr THEN Ret(zero, t.err)
        ELSE CASE t.v = "int" -> LET i == ReadInt32(tk)
                                 IN IF i.err # NoErr THEN Ret(zero, i.err) ELSE i
               [] t.v = "uint" ->
                    LET u == ReadUint32(tk)
                        c == castInt32(u.v)
                    IN  IF u.err # NoErr THEN Ret(zero, u.err)
                        ELSE IF ~c.ok THEN Ret(zero, ErrOverflow32)
                        ELSE Ret(c.v, NoErr)
               [] OTHER -> Ret(zero, ErrType)

(***************************************************************************)
(* SpecScalar: one decoder, one wire value.                                *)
(***************************************************************************)
\* magnitudes around every boundary the decoders test
Mags ==
    { Zero64, One64, L64(0, 0, 0, 2), L64(0, 0, 0, 3), MaxInt32, TwoTo31,
      MaxUint32, TwoTo32, MaxInt64, TwoTo63, AllOnes64 }

IntToks ==
    { TInt(FALSE, m) : m \in { x \in Mags : Le64(x, MaxInt64) } }
    \cup { TInt(TRUE, m) : m \in { x \in Mags : x # Zero64 /\ Le64(x, TwoTo63) } }

UintToks == { TUint(m) : m \in Mags }

ScalarToks ==
    IntToks \cup UintToks
    \cup { TF64(FALSE, One64, TRUE), TStr("a"), TBin("b"), TNil, TBool,
           TArr(0), TMap(0), TEof,
           Short(TInt(FALSE, One64)), Short(TUint(One64)), Short(TStr("a")),
           Short(TBin("b")), Short(TF64(FALSE, One64, FALSE)) }

ScalarDicts == { <<>>, <<"a">>, <<"a", "b">>, <<"a", "b", "">> }

ScalarInit ==
    /\ sc_tok \in ScalarToks
    /\ sc_dict \in ScalarDicts
    /\ sc_op = "none"
    /\ sc_res = Ret("", NoErr)

Call(op, r) ==
    /\ sc_op = "none"
    /\ sc_op' = op
    /\ sc_res' = r
    /\ UNCHANGED <<sc_tok, sc_dict, notScalar>>

CallParseString     == Call("parseString", parseString(sc_tok))
CallParseStringDict == Call("parseStringDict", parseStringDict(sc_tok, sc_dict))
CallParseFloat64    == Call("parseFloat64", parseFloat64(sc_tok))
CallParseInt64      == Call("parseInt64", parseInt64(sc_tok))
CallParseUint64     == Call("parseUint64", parseUint64(sc_tok))
CallParseInt32      == Call("parseInt32", parseInt32(sc_tok))

ScalarNext ==
    \/ CallParseString
    \/ CallParseStringDict
    \/ CallParseFloat64
    \/ CallParseInt64
    \/ CallParseUint64
    \/ CallParseInt32


(***************************************************************************)
(* The reader pool.  A msgp.Reader is its field R, a *fwd.Reader: nil, or  *)
(* a buffered reader with the stream it reads from (src, at most one) and  *)
(* the streams whose bytes sit in its buffer (buf).  sync.Pool hands out   *)
(* any pooled item or a New one, and may drop pooled items at any time.    *)
(***************************************************************************)
MaxCallers == 2

Callers   == 1..MaxCallers
ReaderIds == 1..MaxCallers

\* every caller decodes a stream of its own: the one it hands NewMsgpReader
StreamOf(c) == c

NilR == [isnil |-> TRUE, src |-> {}, buf |-> {}]

\* readerPool's New: &msgp.Reader{}
NewReader == NilR

\* fwd.NewReader(r)
fwdNewReader(s) == [isnil |-> FALSE, src |-> {s}, buf |-> {}]

\* (*fwd.Reader).Reset(r): rebinds and empties the buffer
fwdReset(rd, s) == [rd EXCEPT !.src = {s}, !.buf = {}]

\* a NewMsgpReader that hands a pooled reader out as it was put back
Bind_noReset(rd, s) == IF rd.isnil THEN fwdNewReader(s) ELSE rd

\* NewMsgpReader's binding of the reader p it got from the pool
Bind(rd, s) == IF rd.isnil THEN fwdNewReader(s) ELSE fwdReset(rd, s)

\* a FreeMsgpReader that drops the reader's stream before pooling it
Put_detached(rd) == [rd EXCEPT !.src = {}, !.buf = {}]

\* FreeMsgpReader: readerPool.Put(r) stores r as it is
Put(rd) == rd

Held == UNION { held[c] : c \in Callers }

NeverBound == [last |-> {}, prev |-> {}]

PoolInit ==
    /\ pool = {}
    /\ readers = [r \in ReaderIds |-> NilR]
    /\ held = [c \in Callers |-> {}]
    /\ lastBound = [r \in ReaderIds |-> NeverBound]

\* NewMsgpReader(s) by caller c, readerPool.Get() returning a pooled reader
AcquirePooled(c) ==
    /\ held[c] = {}
    /\ \E p \in pool :
         /\ pool' = pool \ {p}
         /\ readers' = [readers EXCEPT ![p] = Bind(readers[p], StreamOf(c))]
         /\ held' = [held EXCEPT ![c] = {p}]
         /\ lastBound' = [lastBound EXCEPT ![p] =
                [last |-> {StreamOf(c)}, prev |-> lastBound[p].last]]
    /\ UNCHANGED notPool

\* NewMsgpReader(s) by caller c, readerPool.Get() falling back to New
AcquireNew(c) ==
    /\ held[c] = {}
    /\ \E p \in ReaderIds \ (pool \cup Held) :
         /\ readers' = [readers EXCEPT ![p] = Bind(NewReader, StreamOf(c))]
         /\ held' = [held EXCEPT ![c] = {p}]
         /\ lastBound' = [lastBound EXCEPT ![p] = [last |-> {StreamOf(c)}, prev |-> {}]]
    /\ UNCHANGED <<pool, notPool>>

\* the caller decodes from its reader: the buffer fills from the stream
Use(c) ==
    /\ held[c] # {}
    /\ \E p \in held[c] :
         readers' = [readers EXCEPT ![p].buf = readers[p].buf \cup readers[p].src]
    /\ UNCHANGED <<pool, held, lastBound, notPool>>

\* FreeMsgpReader(r) by the caller that holds r
Release(c) ==
    /\ held[c] # {}
    /\ \E p \in held[c] :
         /\ readers' = [readers EXCEPT ![p] = Put(readers[p])]
         /\ pool' = pool \cup {p}
    /\ held' = [held EXCEPT ![c] = {}]
    /\ UNCHANGED <<lastBound, notPool>>

\* sync.Pool drops a pooled reader (garbage collection); nothing refers to
\* the reader any more, and its id stands for a reader yet to be made
PoolDrop ==
    /\ \E p \in pool :
         /\ pool' = pool \ {p}
         /\ readers' = [readers EXCEPT ![p] = NilR]
         /\ lastBound' = [lastBound EXCEPT ![p] = NeverBound]
    /\ UNCHANGED <<held, notPool>>

PoolNext ==
    \/ \E c \in Callers : AcquirePooled(c)
    \/ \E c \in Callers : AcquireNew(c)
    \/ \E c \in Callers : Use(c)
    \/ \E c \in Callers : Release(c)
    \/ PoolDrop


(***************************************************************************)
(* Decoded data.  A Go map is [isnil, kv]; a *Span is a record whose isnil *)
(* marks the nil pointer; a slice is [id, len, arr]: arr is its backing    *)
(* array up to its capacity and id names the array ("nil": none, "old":    *)
(* the caller's, "new": one this decode made).                             *)
(***************************************************************************)
MapNil  == [isnil |-> TRUE, kv |-> <<>>]
MapMake == [isnil |-> FALSE, kv |-> <<>>]
MapLen(m) == Cardinality(DOMAIN m.kv)
MapSet(m, k, v) ==
    [m EXCEPT !.kv = [x \in DOMAIN m.kv \cup {k} |-> IF x = k THEN v ELSE m.kv[x]]]
\* for key := range m { delete(m, key) }
MapClear(m) == [m EXCEPT !.kv = <<>>]

ZeroSpan ==
    [isnil |-> FALSE, Service |-> "", Name |-> "", Resource |-> "",
     TraceID |-> Zero64, SpanID |-> Zero64, ParentID |-> Zero64,
     Start |-> I64(FALSE, Zero64), Duration |-> I64(FALSE, Zero64),
     Error |-> I64(FALSE, Zero64), Meta |-> MapNil, Metrics |-> MapNil,
     Type |-> ""]

NilSpan  == [ZeroSpan EXCEPT !.isnil = TRUE]
NilSlice == [id |-> "nil", len |-> 0, arr |-> <<>>]
cap(s)   == Len(s.arr)

\* a reuse test on the length of the batch instead of its capacity
ResizeTraces_byLen(zz, xsz) ==
    IF zz.len >= xsz THEN [zz EXCEPT !.len = xsz]
    ELSE [id |-> "new", len |-> xsz, arr |-> [i \in 1..xsz |-> NilSlice]]

\* lines 264-268: reuse z when its capacity allows, else make(Traces, xsz)
ResizeTraces(zz, xsz) ==
    IF cap(zz) >= xsz THEN [zz EXCEPT !.len = xsz]
    ELSE [id |-> "new", len |-> xsz, arr |-> [i \in 1..xsz |-> NilSlice]]

\* lines 275-279: the same for the trace z[wht]
ResizeTrace(tr, xsz) ==
    IF cap(tr) >= xsz THEN [tr EXCEPT !.len = xsz]
    ELSE [id |-> "new", len |-> xsz, arr |-> [i \in 1..xsz |-> NilSpan]]

\* lines 281-283: a nil slot gets a new(Span)
EnsureSpan(sp) == IF sp.isnil THEN ZeroSpan ELSE sp

\* a map reused without removing what it held
MapPrepare_noClear(m, size) ==
    IF m.isnil /\ size > 0 THEN MapMake ELSE m

\* a map emptied only when the wire declares entries for it
MapPrepare_keptWhenEmpty(m, size) ==
    IF size = 0 THEN m
    ELSE IF m.isnil THEN MapMake
    ELSE MapClear(m)

\* lines 357-363 and 384-390: the destination map before it is filled
MapPrepare(m, size) ==
    IF m.isnil /\ size > 0 THEN MapMake
    ELSE IF MapLen(m) > 0 THEN MapClear(m)
    ELSE m

spanPropertyCount == 12

\* an arity test that only rejects records that are too short
ArityWrong_tooShort(xsz) == xsz < spanPropertyCount

\* line 302: the arity test of Span.DecodeMsgArray
ArityWrong(xsz) == xsz # spanPropertyCount

\* a span loop that goes on to the next span whatever the last one returned
SpanFailed_ignored(e) == FALSE

\* lines 285-287: Traces.DecodeMsgArray gives up when a span failed
SpanFailed(e) == e # NoErr

CurSpan(zz)      == zz.arr[wht].arr[hct]
SetSpan(zz, sp)  == [zz EXCEPT !.arr[wht].arr[hct] = sp]
SetField(zz, f, v) == SetSpan(zz, [CurSpan(zz) EXCEPT ![f] = v])

(***************************************************************************)
(* The wire.  The payload is produced token by token as the decoder asks   *)
(* for it: at each step the next token is the well-formed one for that     *)
(* position, or one of a few malformed ones.  A token that NextType looked *)
(* at and nothing consumed stays the next token.                           *)
(***************************************************************************)
MaxDict   == 2
MaxTraces == 2
MaxSpans  == 2
MaxMap    == 1

Names == <<"web", "GET /", "db", "q", "r">>

Wire(good, bad) == IF unread # NoTok THEN {unread} ELSE good \cup bad

\* dictionary entry i as a producer writes it: str and bin alternate
DictTok(i) == IF i % 2 = 1 THEN TStr(Names[i]) ELSE TBin(Names[i])

\* the dictionary index a producer writes for the n-th string of a span
IdxTok(n) == TIdx(IF Len(dict) = 0 THEN 0 ELSE n % Len(dict))

BadIdx == { TIdx(Len(dict)), TIdx(-1), TStr("x"), TEof }
BadHdr == { TNil, TEof }
BadNum == { TStr("x"), TEof, Short(TUint(One64)) }

StrFields == {"Service", "Name", "Resource", "Type"}
U64Fields == {"TraceID", "SpanID", "ParentID"}
I64Fields == {"Start", "Duration"}

NextField(f) ==
    CASE f = "Service" -> "Name"      [] f = "Name" -> "Resource"
      [] f = "Resource" -> "TraceID"  [] f = "TraceID" -> "SpanID"
      [] f = "SpanID" -> "ParentID"   [] f = "ParentID" -> "Start"
      [] f = "Start" -> "Duration"    [] f = "Duration" -> "Error"
      [] f = "Error" -> "MetaHdr"     [] f = "Type" -> "spanRet"

GoodTok(f) ==
    CASE f = "Service"  -> IdxTok(0)
      [] f = "Name"     -> IdxTok(1)
      [] f = "Resource" -> IdxTok(0)
      [] f = "Type"     -> IdxTok(1)
      [] f = "TraceID"  -> TUint(TwoTo63)
      [] f = "SpanID"   -> TIdx(hist.seq)
      [] f = "ParentID" -> TInt(TRUE, One64)
      [] f = "Start"    -> TUint(L64(0, 0, 0, 1000))
      [] f = "Duration" -> TIdx(500)
      [] f = "Error"    -> TIdx(hist.seq % 2)

\* the entries a producer puts in the maps of the span being decoded: the
\* sizes differ from span to span and between Meta and Metrics
MapSize(f) ==
    IF f = "Meta" THEN (tpl + hist.seq) % (MaxMap + 1)
    ELSE (tpl + hist.seq \div 2) % (MaxMap + 1)

(***************************************************************************)
(* History of the run.                                                     *)
(***************************************************************************)
Hist0(a, b) ==
    [reads |-> 0, stepErr |-> NoErr, errReads |-> 0, wireDict |-> <<>>,
     declM |-> <<>>, declK |-> <<>>, seq |-> 0, spanBefore |-> NilSpan,
     spanHdr |-> <<>>, readsAtCall |-> 0, metaWire |-> <<>>,
     metricsWire |-> <<>>, z0 |-> a, zB0 |-> b]

\* one more step touched the reader; e is the error it raised
Stepped(h, e) ==
    [h EXCEPT !.reads = @ + 1,
              !.stepErr = IF @ = NoErr THEN e ELSE @,
              !.errReads = IF h.stepErr = NoErr /\ e # NoErr THEN h.reads + 1 ELSE @]


(***************************************************************************)
(* The caller's destination buffers: what earlier decodes leave behind.    *)
(***************************************************************************)
OldSpanA ==
    [isnil |-> FALSE, Service |-> "old", Name |-> "old", Resource |-> "old",
     TraceID |-> L64(0, 0, 0, 7), SpanID |-> L64(0, 0, 0, 8),
     ParentID |-> L64(0, 0, 0, 9), Start |-> I64(FALSE, L64(0, 0, 0, 5)),
     Duration |-> I64(FALSE, L64(0, 0, 0, 6)), Error |-> I64(FALSE, One64),
     Meta |-> [isnil |-> FALSE, kv |-> [k \in {"a", "b", "web"} |-> "1"]],
     Metrics |-> [isnil |-> FALSE,
                  kv |-> [k \in {"m"} |-> F64(FALSE, L64(0, 0, 0, 7), FALSE)]],
     Type |-> "old"]

OldSpanB == [OldSpanA EXCEPT !.Meta = MapMake, !.Metrics = MapNil]

Slice(len, arr) == [id |-> "old", len |-> len, arr |-> arr]

Priors ==
    { NilSlice,
      Slice(1, << Slice(1, <<OldSpanA>>) >>),
      Slice(0, << Slice(0, <<OldSpanB, OldSpanA>>), NilSlice >>),
      Slice(2, << Slice(1, <<OldSpanA>>), Slice(2, <<OldSpanB, NilSpan>>) >>) }

\* the destinations of the second decode: a fresh one and a recycled one
PriorsB ==
    { NilSlice,
      Slice(2, << Slice(1, <<OldSpanA>>), Slice(2, <<OldSpanB, NilSpan>>) >>) }

(***************************************************************************)
(* Traces.DecodeMsgArray, one reader step per action.                      *)
(***************************************************************************)
DecInit ==
    /\ pc = "top"
    /\ dict = <<>>
    /\ sz = 0
    /\ di = 0
    /\ z \in Priors
    /\ zB \in PriorsB
    /\ wht = 0
    /\ hct = 0
    /\ msize = 0
    /\ key = ""
    /\ err = NoErr
    /\ serr = NoErr
    /\ unread = NoTok
    /\ tpl \in 0..MaxMap
    /\ hist = Hist0(z, zB)

\* a token is consumed by the read that succeeds on it
After(tk, ok) == IF ok THEN NoTok ELSE tk

\* return e from Traces.DecodeMsgArray
Return(e) == pc' = "done" /\ err' = e

\* line 217
TopHeader ==
    /\ pc = "top"
    /\ \E tk \in Wire({TArr(2)}, BadHdr) :
         LET r == ReadArrayHeader(tk)
         IN  /\ IF r.err # NoErr THEN Return(r.err)
                ELSE pc' = "dictHdr" /\ err' = err
             /\ unread' = After(tk, r.err = NoErr)
             /\ hist' = Stepped(hist, r.err)
    /\ UNCHANGED <<dict, sz, di, z, zB, wht, hct, msize, key, serr, tpl, notDec>>

\* lines 221-225
DictHeader ==
    /\ pc = "dictHdr"
    /\ \E tk \in Wire({TArr(n) : n \in 0..MaxDict}, BadHdr) :
         LET r == ReadArrayHeader(tk)
         IN  /\ IF r.err # NoErr
                THEN Return(r.err) /\ UNCHANGED <<sz, dict, di>>
                ELSE /\ sz' = r.v
                     /\ dict' = [i \in 1..r.v |-> ""]
                     /\ di' = 1
                     /\ pc' = IF r.v > 0 THEN "dictEntry" ELSE "tracesHdr"
                     /\ err' = err
             /\ unread' = After(tk, r.err = NoErr)
             /\ hist' = Stepped(hist, r.err)
    /\ UNCHANGED <<z, zB, wht, hct, msize, key, serr, tpl, notDec>>

\* lines 227-256: one iteration of the dictionary loop; took says whether
\* the entry's token was consumed
DictValue(tk) ==
    LET t == NextType(tk)
        no(e) == [v |-> "", err |-> e, took |-> FALSE]
    IN  IF t.err # NoErr THEN no(t.err)
        ELSE CASE t.v = "nil" -> [v |-> "", err |-> NoErr, took |-> FALSE]
               [] t.v = "bin" ->
                    LET b == ReadBytes(tk)
                    IN  IF b.err # NoErr THEN no(b.err)
                        ELSE [v |-> b.v, err |-> NoErr, took |-> TRUE]
               [] t.v = "str" ->
                    LET s == ReadString(tk)
                    IN  IF s.err # NoErr THEN no(s.err)
                        ELSE [v |-> s.v, err |-> NoErr, took |-> TRUE]
               [] OTHER -> no(ErrDictType)

DictEntry ==
    /\ pc = "dictEntry"
    /\ \E tk \in Wire({DictTok(di), TNil}, {TIdx(0), TEof, Short(TStr("x"))}) :
         LET r == DictValue(tk)
         IN  /\ IF r.err # NoErr
                THEN Return(r.err) /\ UNCHANGED <<dict, di>>
                ELSE /\ dict' = [dict EXCEPT ![di] = r.v]
                     /\ di' = di + 1
                     /\ pc' = IF di < sz THEN "dictEntry" ELSE "tracesHdr"
                     /\ err' = err
             /\ unread' = After(tk, r.took)
             /\ hist' = [Stepped(hist, r.err) EXCEPT
                           !.wireDict = IF r.took THEN Append(@, tk) ELSE @]
    /\ UNCHANGED <<sz, z, zB, wht, hct, msize, key, serr, tpl, notDec>>

\* lines 259-268
TracesHeader ==
    /\ pc = "tracesHdr"
    /\ \E tk \in Wire({TArr(n) : n \in 0..MaxTraces}, BadHdr) :
         LET r == ReadArrayHeader(tk)
         IN  /\ IF r.err # NoErr
                THEN Return(r.err) /\ UNCHANGED <<z, zB, wht>>
                ELSE /\ z' = ResizeTraces(z, r.v)
                     /\ zB' = ResizeTraces(zB, r.v)
                     /\ wht' = 1
                     /\ IF r.v > 0 THEN pc' = "traceHdr" /\ err' = err
                        ELSE Return(NoErr)
             /\ unread' = After(tk, r.err = NoErr)
             /\ hist' = [Stepped(hist, r.err) EXCEPT
                           !.declM = IF r.err = NoErr THEN <<r.v>> ELSE @]
    /\ UNCHANGED <<dict, sz, di, hct, msize, key, serr, tpl, notDec>>

\* lines 269-280
TraceHeader ==
    /\ pc = "traceHdr"
    /\ \E tk \in Wire({TArr(n) : n \in 0..MaxSpans}, BadHdr) :
         LET r == ReadArrayHeader(tk)
         IN  /\ IF r.err # NoErr
                THEN Return(r.err) /\ UNCHANGED <<z, zB, wht, hct>>
                ELSE /\ z' = [z EXCEPT !.arr[wht] = ResizeTrace(@, r.v)]
                     /\ zB' = [zB EXCEPT !.arr[wht] = ResizeTrace(@, r.v)]
                     /\ hct' = 1
                     /\ IF r.v > 0
                        THEN pc' = "spanHdr" /\ err' = err /\ wht' = wht
                        ELSE IF wht < z.len
                        THEN pc' = "traceHdr" /\ err' = err /\ wht' = wht + 1
                        ELSE Return(NoErr) /\ wht' = wht
             /\ unread' = After(tk, r.err = NoErr)
             /\ hist' = [Stepped(hist, r.err) EXCEPT
                           !.declK = IF r.err = NoErr THEN Append(@, r.v) ELSE @]
    /\ UNCHANGED <<dict, sz, di, msize, key, serr, tpl, notDec>>

\* lines 284-289: the span's decode returned
SpanReturn ==
    /\ pc = "spanRet"
    /\ IF SpanFailed(serr)
       THEN Return(serr) /\ UNCHANGED <<wht, hct>>
       ELSE IF hct < z.arr[wht].len
       THEN pc' = "spanHdr" /\ hct' = hct + 1 /\ UNCHANGED <<wht, err>>
       ELSE IF wht < z.len
       THEN pc' = "traceHdr" /\ wht' = wht + 1 /\ UNCHANGED <<hct, err>>
       ELSE Return(NoErr) /\ UNCHANGED <<wht, hct>>
    /\ UNCHANGED <<dict, sz, di, z, zB, msize, key, serr, unread, tpl, hist,
                   notDec>>


(***************************************************************************)
(* Span.DecodeMsgArray on the span z[wht][hct].                         *)
(***************************************************************************)
\* return e from Span.DecodeMsgArray
SpanReturns(e) == pc' = "spanRet" /\ serr' = e

\* lines 281-284 and 297-304: the slot gets a span, the span reads its header
SpanHeader ==
    /\ pc = "spanHdr"
    /\ \E tk \in Wire({TArr(spanPropertyCount)},
                      {TArr(spanPropertyCount - 1), TArr(spanPropertyCount + 1),
                       TNil, TEof}) :
         LET r  == ReadArrayHeader(tk)
             e  == IF r.err # NoErr THEN r.err
                   ELSE IF ArityWrong(r.v) THEN ErrArity ELSE NoErr
             sp == EnsureSpan(CurSpan(z))
         IN  /\ z' = SetSpan(z, sp)
             /\ zB' = SetSpan(zB, EnsureSpan(CurSpan(zB)))
             /\ IF e # NoErr THEN SpanReturns(e)
                ELSE pc' = "Service" /\ serr' = NoErr
             /\ unread' = After(tk, r.err = NoErr)
             /\ hist' = [Stepped(hist, e) EXCEPT
                           !.seq = @ + 1,
                           !.spanBefore = sp,
                           !.spanHdr = IF r.err = NoErr THEN <<r.v>> ELSE <<>>,
                           !.readsAtCall = hist.reads,
                           !.metaWire = <<>>,
                           !.metricsWire = <<>>]
    /\ UNCHANGED <<dict, sz, di, wht, hct, msize, key, err, tpl, notDec>>

\* z.<f>, err = <decoder>; if err != nil { return }
FieldStep(f, r, tk) ==
    /\ IF r.panic
       THEN pc' = "panic" /\ UNCHANGED <<z, zB, serr>>
       ELSE /\ z' = SetField(z, f, r.v)
            /\ zB' = SetField(zB, f, r.v)
            /\ IF r.err # NoErr THEN SpanReturns(r.err)
               ELSE pc' = NextField(f) /\ serr' = NoErr
    /\ unread' = After(tk, r.err = NoErr /\ ~r.panic)
    /\ hist' = Stepped(hist, r.err)
    /\ UNCHANGED <<dict, sz, di, wht, hct, msize, key, err, tpl, notDec>>

\* lines 306-320 and 405-410: Service, Name, Resource, Type
StringField ==
    /\ pc \in StrFields
    /\ \E tk \in Wire({GoodTok(pc)}, BadIdx) :
         FieldStep(pc, parseStringDict(tk, dict), tk)

\* lines 321-335: TraceID, SpanID, ParentID
Uint64Field ==
    /\ pc \in U64Fields
    /\ \E tk \in Wire({GoodTok(pc)}, BadNum) :
         FieldStep(pc, parseUint64(tk), tk)

\* lines 336-345: Start, Duration
Int64Field ==
    /\ pc \in I64Fields
    /\ \E tk \in Wire({GoodTok(pc)}, BadNum \cup {TUint(TwoTo63)}) :
         FieldStep(pc, parseInt64(tk), tk)

\* lines 346-350: Error
Int32Field ==
    /\ pc = "Error"
    /\ \E tk \in Wire({GoodTok(pc)},
                      BadNum \cup {TUint(TwoTo31), TInt(FALSE, TwoTo32)}) :
         FieldStep(pc, parseInt32(tk), tk)

\* lines 351-364 and 378-391: the map's header, and the map made ready
MapHeader ==
    /\ pc \in {"MetaHdr", "MetricsHdr"}
    /\ LET f == IF pc = "MetaHdr" THEN "Meta" ELSE "Metrics"
       IN \E tk \in Wire({TMap(MapSize(f))}, {TArr(0), TEof}) :
            LET r == ReadMapHeader(tk)
            IN  /\ IF r.err # NoErr
                   THEN SpanReturns(r.err) /\ UNCHANGED <<z, zB, msize>>
                   ELSE /\ z' = SetField(z, f, MapPrepare(CurSpan(z)[f], r.v))
                        /\ zB' = SetField(zB, f, MapPrepare(CurSpan(zB)[f], r.v))
                        /\ msize' = r.v
                        /\ serr' = NoErr
                        /\ pc' = IF r.v > 0
                                 THEN (IF f = "Meta" THEN "MetaKey" ELSE "MetricsKey")
                                 ELSE (IF f = "Meta" THEN "MetricsHdr" ELSE "Type")
                /\ unread' = After(tk, r.err = NoErr)
                /\ hist' = Stepped(hist, r.err)
    /\ UNCHANGED <<dict, sz, di, wht, hct, key, err, tpl, notDec>>

\* lines 364-371 and 391-398: the loop's test, the decrement, the key
MapKey ==
    /\ pc \in {"MetaKey", "MetricsKey"}
    /\ LET n == IF pc = "MetaKey" THEN Len(hist.metaWire)
                ELSE Len(hist.metricsWire)
       IN \E tk \in Wire({IdxTok(n)}, BadIdx) :
            LET r == parseStringDict(tk, dict)
            IN  /\ IF r.panic THEN pc' = "panic" /\ UNCHANGED <<serr, key>>
                   ELSE IF r.err # NoErr
                   THEN SpanReturns(r.err) /\ UNCHANGED key
                   ELSE /\ key' = r.v
                        /\ serr' = NoErr
                        /\ pc' = IF pc = "MetaKey" THEN "MetaVal" ELSE "MetricsVal"
                /\ msize' = msize - 1
                /\ unread' = After(tk, r.err = NoErr /\ ~r.panic)
                /\ hist' = Stepped(hist, r.err)
    /\ UNCHANGED <<dict, sz, di, z, zB, wht, hct, err, tpl, notDec>>

\* the value read, m[key] = value, and back to the loop's test
MapValue(f, r, tk, again, after) ==
    /\ IF r.panic \/ (r.err = NoErr
                      /\ (CurSpan(z)[f].isnil \/ CurSpan(zB)[f].isnil))
       THEN pc' = "panic" /\ UNCHANGED <<z, zB, serr>>  \* or: write to a nil map
       ELSE IF r.err # NoErr
       THEN SpanReturns(r.err) /\ UNCHANGED <<z, zB>>
       ELSE /\ z' = SetField(z, f, MapSet(CurSpan(z)[f], key, r.v))
            /\ zB' = SetField(zB, f, MapSet(CurSpan(zB)[f], key, r.v))
            /\ serr' = NoErr
            /\ pc' = IF msize > 0 THEN again ELSE after
    /\ unread' = After(tk, r.err = NoErr /\ ~r.panic)
    /\ hist' = [Stepped(hist, r.err) EXCEPT
                  !.metaWire = IF f = "Meta" /\ r.err = NoErr /\ ~r.panic
                               THEN Append(@, <<key, r.v>>) ELSE @,
                  !.metricsWire = IF f = "Metrics" /\ r.err = NoErr /\ ~r.panic
                                  THEN Append(@, <<key, r.v>>) ELSE @]
    /\ UNCHANGED <<dict, sz, di, wht, hct, msize, key, err, tpl, notDec>>

\* lines 372-376
MetaValue ==
    /\ pc = "MetaVal"
    /\ \E tk \in Wire({IdxTok(Len(hist.metaWire) + 1)}, BadIdx) :
         MapValue("Meta", parseStringDict(tk, dict), tk, "MetaKey", "MetricsHdr")

\* lines 399-403
MetricsValue ==
    /\ pc = "MetricsVal"
    /\ \E tk \in Wire({IF Len(hist.metricsWire) % 2 = 0
                       THEN TF64(FALSE, One64, TRUE) ELSE TIdx(3)},
                      {TStr("x"), TEof}) :
         MapValue("Metrics", parseFloat64(tk), tk, "MetricsKey", "Type")

DecNext ==
    \/ TopHeader
    \/ DictHeader
    \/ DictEntry
    \/ TracesHeader
    \/ TraceHeader
    \/ SpanHeader
    \/ StringField
    \/ Uint64Field
    \/ Int64Field
    \/ Int32Field
    \/ MapHeader
    \/ MapKey
    \/ MetaValue
    \/ MetricsValue
    \/ SpanReturn

(***************************************************************************)
(* The specifications.  Each runs its own part and holds the rest still.   *)
(***************************************************************************)
ScalarIdle ==
    /\ sc_tok = NoTok
    /\ sc_dict = <<>>
    /\ sc_op = "none"
    /\ sc_res = Ret("", NoErr)

DecIdle ==
    /\ pc = "idle"
    /\ dict = <<>>
    /\ sz = 0
    /\ di = 0
    /\ z = NilSlice
    /\ zB = NilSlice
    /\ wht = 0
    /\ hct = 0
    /\ msize = 0
    /\ key = ""
    /\ err = NoErr
    /\ serr = NoErr
    /\ unread = NoTok
    /\ tpl = 0
    /\ hist = Hist0(NilSlice, NilSlice)

Init == DecInit /\ ScalarIdle /\ PoolInit
Next == DecNext
Spec == Init /\ [][Next]_vars

InitScalar == ScalarInit /\ DecIdle /\ PoolInit
NextScalar == ScalarNext
SpecScalar == InitScalar /\ [][NextScalar]_vars

InitPool == PoolInit /\ ScalarIdle /\ DecIdle
NextPool == PoolNext
SpecPool == InitPool /\ [][NextPool]_vars


(***************************************************************************)
(* Properties.                                                             *)
(***************************************************************************)

\* C1: when the dictionary loop is over, every one of the sz wire entries
\* was consumed, the nil ones too, and dict[i] is "" for a nil entry and the
\* entry's string otherwise; so the reader stands at the traces array.
C1_DictEntriesConsumed ==
    pc = "tracesHdr" =>
        /\ Len(hist.wireDict) = sz
        /\ unread = NoTok
        /\ \A i \in 1..sz :
             dict[i] = IF hist.wireDict[i].t = "nil" THEN "" ELSE hist.wireDict[i].s

\* C2: parseStringDict on an index i the wire holds: dict[i] and no error
\* when 0 <= i < len(dict), and the index error for every other i, below 0
\* too; it never panics.
C2_IndexInRangeOrError ==
    (sc_op = "parseStringDict" /\ ReadInt(sc_tok).err = NoErr) =>
        LET i == ReadInt(sc_tok).v
        IN  /\ ~sc_res.panic
            /\ IF ~i.neg /\ Lt64(i.mag, L64(0, 0, 0, Len(sc_dict)))
               THEN sc_res.err = NoErr /\ sc_res.v = sc_dict[i.mag[4] + 1]
               ELSE sc_res.err = ErrIndex

\* C3 as claimed: no reader sitting in the pool references a stream.
C3_PooledDetached ==
    \A p \in pool : readers[p].src = {}

\* C3 as amended: FreeMsgpReader pools the reader as it is, so every reader
\* sitting in the pool still references the stream NewMsgpReader last bound
\* it to.
C3_PooledKeepsStream ==
    \A p \in pool :
        /\ ~readers[p].isnil
        /\ lastBound[p].last # {}
        /\ readers[p].src = lastBound[p].last

\* a reader that was used sits in the pool
C3_Witness ==
    \E p \in pool : readers[p].buf # {} /\ lastBound[p].prev # {}

\* C4: no reader is held by two callers at once, and a held reader reads
\* from its holder's stream and buffers nothing of any other stream.
C4_ExclusiveAndBound ==
    /\ \A c1, c2 \in Callers : c1 # c2 => held[c1] \cap held[c2] = {}
    /\ \A c \in Callers : \A p \in held[c] :
         /\ p \notin pool
         /\ ~readers[p].isnil
         /\ readers[p].src = {StreamOf(c)}
         /\ readers[p].buf \subseteq {StreamOf(c)}

\* a caller holds a reader that served another caller's stream before, while
\* another caller holds a reader too
C4_Witness ==
    \E c, c2 \in Callers : \E p \in held[c] :
        /\ c2 # c /\ held[c2] # {}
        /\ lastBound[p].prev # {}
        /\ lastBound[p].prev # {StreamOf(c)}
        /\ readers[p].buf # {}

\* C5: once a step of the decode has raised an error, the decode is over or
\* the span is returning that error to the batch decoder, nothing was read
\* after the failing step, and the error returned is the one that step raised.
C5_ErrorAborts ==
    /\ pc = "done" => err = hist.stepErr
    /\ hist.stepErr # NoErr =>
         /\ pc \in {"spanRet", "done"}
         /\ pc = "spanRet" => serr = hist.stepErr
         /\ hist.reads = hist.errReads

\* the decode failed inside a span of a later trace, after a span was decoded
C5_Witness ==
    /\ pc = "done"
    /\ err \in {ErrOverflow32, ErrIndex, ErrType}
    /\ wht > 1
    /\ hist.seq > 1

\* C6: a span record whose declared length is not 12 makes Span.DecodeMsgArray
\* return the arity error after the one read of the header, the span as it
\* was when the call began.
C6_ArityLeavesSpan ==
    (pc = "spanRet" /\ hist.spanHdr # <<>>
                    /\ hist.spanHdr # <<spanPropertyCount>>) =>
        /\ serr = ErrArity
        /\ hist.reads = hist.readsAtCall + 1
        /\ CurSpan(z) = hist.spanBefore

\* a recycled span met a record of 13 elements
C6_Witness ==
    /\ pc = "spanRet"
    /\ hist.spanHdr = <<spanPropertyCount + 1>>
    /\ hist.spanBefore = OldSpanA

\* the mapping a sequence of wire entries <<key, value>> denotes
MapOf(w) ==
    [k \in { w[i][1] : i \in DOMAIN w } |->
        w[CHOOSE i \in DOMAIN w :
            /\ w[i][1] = k
            /\ \A j \in DOMAIN w : w[j][1] = k => j <= i][2]]

\* C7: after a span decoded without error, Meta and Metrics hold exactly the
\* entries the wire carried for this span.
C7_MapsHoldPayloadOnly ==
    (pc = "spanRet" /\ serr = NoErr) =>
        /\ Len(hist.metaWire) = MapSize("Meta")
        /\ Len(hist.metricsWire) = MapSize("Metrics")
        /\ CurSpan(z).Meta.kv = MapOf(hist.metaWire)
        /\ CurSpan(z).Metrics.kv = MapOf(hist.metricsWire)

\* a recycled span whose Meta held several entries was decoded from a record
\* with one Meta entry and no Metrics entry
C7_Witness ==
    /\ pc = "spanRet" /\ serr = NoErr
    /\ MapLen(hist.spanBefore.Meta) > 1
    /\ MapLen(hist.spanBefore.Metrics) > 0
    /\ Len(hist.metaWire) = 1
    /\ Len(hist.metricsWire) = 0

\* C9: after a decode without error the batch has the declared length M and
\* trace j the declared length K_j; the batch's array is the caller's exactly
\* when its capacity was at least M, and the same for every trace.
C9_LengthsAndReuse ==
    (pc = "done" /\ err = NoErr) =>
        LET M == hist.declM[1]
            before(j) == IF cap(hist.z0) >= M THEN hist.z0.arr[j] ELSE NilSlice
        IN  /\ z.len = M
            /\ Len(hist.declK) = M
            /\ IF cap(hist.z0) >= M THEN z.id = hist.z0.id ELSE z.id = "new"
            /\ cap(z) = IF cap(hist.z0) >= M THEN cap(hist.z0) ELSE M
            /\ \A j \in 1..M :
                 /\ z.arr[j].len = hist.declK[j]
                 /\ IF cap(before(j)) >= hist.declK[j]
                    THEN z.arr[j].id = before(j).id
                         /\ cap(z.arr[j]) = cap(before(j))
                    ELSE z.arr[j].id = "new"
                         /\ cap(z.arr[j]) = hist.declK[j]
                 /\ \A k \in 1..hist.declK[j] : ~z.arr[j].arr[k].isnil

\* the caller's batch was kept, one of its traces kept and one replaced
C9_Witness ==
    /\ pc = "done" /\ err = NoErr
    /\ hist.z0.id = "old" /\ z.id = "old" /\ z.len = 2
    /\ z.arr[1].id = "new" /\ z.arr[2].id = "old" /\ z.arr[2].len = 1

\* the spans of a batch, field by field, a nil map standing for an empty one
SpanValue(sp) ==
    [sp EXCEPT !.Meta = sp.Meta.kv, !.Metrics = sp.Metrics.kv]

BatchValue(zz) ==
    [j \in 1..zz.len |->
        [k \in 1..zz.arr[j].len |-> SpanValue(zz.arr[j].arr[k])]]

\* C10: two decodes of the same payload without error, into destinations
\* with different contents, yield the same traces, spans and field values.
C10_ReuseInvisible ==
    (pc = "done" /\ err = NoErr) => BatchValue(z) = BatchValue(zB)

\* one decode went into recycled spans, the other into a fresh nil batch
C10_Witness ==
    /\ pc = "done" /\ err = NoErr
    /\ hist.zB0 = NilSlice
    /\ z.id = "old" /\ z.len > 0
    /\ z.arr[1].id = "old" /\ z.arr[1].len = 2
    /\ hist.z0.arr[1].arr[1] = OldSpanB
    /\ hist.z0.arr[1].arr[2] = OldSpanA

\* C8: parseUint64 turns a signed wire value v into v mod 2^64 without an
\* error (below zero: the result plus |v| is 2^64; -1 gives
\* 18446744073709551615), returns an unsigned wire value as it is, and
\* rejects every other wire type with the type error.
C8_Uint64Reinterprets ==
    sc_op = "parseUint64" =>
        CASE sc_tok.t = "int" /\ ~sc_tok.short ->
                /\ sc_res.err = NoErr
                /\ IF sc_tok.neg
                   THEN Add64(sc_res.v, sc_tok.mag) = [sum |-> Zero64, carry |-> 1]
                   ELSE sc_res.v = sc_tok.mag
                /\ sc_tok = TInt(TRUE, One64) => sc_res.v = AllOnes64
          [] sc_tok.t = "uint" /\ ~sc_tok.short ->
                sc_res.err = NoErr /\ sc_res.v = sc_tok.mag
          [] sc_tok.t \notin {"int", "uint", "eof"} ->
                sc_res.err = ErrType
          [] OTHER -> sc_res.err # NoErr

\* the wire held a signed -1
C8_Witness ==
    /\ sc_op = "parseUint64"
    /\ sc_tok = TInt(TRUE, One64)
    /\ sc_res = Ret(AllOnes64, NoErr)

=============================================================================
